---- MODULE Spec2Model ----
(* A model of fim_scanner.py: the hasher, the tree scanner, the baseline   *)
(* store, the differ and main's control flow, with the file system and the *)
(* baseline file as the environment.                                        *)
EXTENDS Integers, Sequences, FiniteSets, TLC

(***************************************************************************)
(* Bounds and program constants                                            *)
(***************************************************************************)

\* f.read(4096): the hasher's chunk size in bytes.
ChunkSize == 4096

\* Longest file content, in chunks.
MaxChunks == 1

\* Entries of current and baseline together, in the differ's specification.
MaxEntries == 4

\* Changes and I/O faults the environment causes in one behaviour.
MaxFaults == 1

\* Root-relative paths of the monitored tree: a file, a directory, a file in it.
Paths == {"a.txt", "d", "d/a.txt"}

\* The directory an entry lives in ("" is the scan root).
Parent(p) == IF p = "d/a.txt" THEN "d" ELSE ""

\* The values a chunk of file content can take.
ChunkValues == {"A", "B"}

RECURSIVE SeqsUpTo(_, _)
SeqsUpTo(S, n) ==
    IF n = 0 THEN {<< >>}
    ELSE LET shorter == SeqsUpTo(S, n - 1)
         IN  shorter \cup {Append(s, x) : s \in {t \in shorter : Len(t) = n - 1}, x \in S}

Contents == SeqsUpTo(ChunkValues, MaxChunks)

\* Python's None and a value that is not None.
None == [some |-> FALSE]
Some(v) == [some |-> TRUE, val |-> v]
IsNone(x) == ~x.some

(***************************************************************************)
(* Hasher: hashlib.sha256, fed chunk by chunk                              *)
(***************************************************************************)

\* hashlib.sha256(): the accumulator holds what was fed so far.
sha256_new == << >>

\* hash_func.update(chunk)
sha256_update(acc, chunk) == Append(acc, chunk)

\* hash_func.hexdigest(): collision-free, one digest per content.
hexdigest(acc) == [alg |-> "sha256", of |-> acc]

(***************************************************************************)
(* Fingerprint mappings: dicts from relative path to {hash, size, modified}*)
(***************************************************************************)

EmptyMapping == [k \in {} |-> 0]

\* file_hashes[rel_path] = {...}: a dict assignment (insert or overwrite).
DictSet(m, k, v) == [x \in (DOMAIN m) \cup {k} |-> IF x = k THEN v ELSE m[x]]

\* Python truthiness of an optional dict: `if data:`.
Truthy(x) == x.some /\ DOMAIN x.val # {}

\* A Python list built from a set: some order, each element once.
RECURSIVE SetToList(_)
SetToList(S) ==
    IF S = {} THEN << >>
    ELSE LET x == CHOOSE y \in S : TRUE
         IN  <<x>> \o SetToList(S \ {x})

Range(s) == {s[i] : i \in DOMAIN s}

(***************************************************************************)
(* Differ                                                                  *)
(***************************************************************************)

\* The condition with the modification time compared as well.
RecordDiffers_WithMtime(c, b) ==
    c.hash # b.hash \/ c.size # b.size \/ c.modified # b.modified

\* The condition of lines 94-95.
RecordDiffers(c, b) == c.hash # b.hash \/ c.size # b.size

\* The loop of lines 93-96: append every differing common file.
RECURSIVE ModifiedLoop(_, _, _, _)
ModifiedLoop(files, current, baseline, acc) ==
    IF files = {} THEN acc
    ELSE LET file == CHOOSE f \in files : TRUE
             next == IF RecordDiffers(current[file], baseline[file])
                     THEN Append(acc, file) ELSE acc
         IN  ModifiedLoop(files \ {file}, current, baseline, next)

\* The differ with line 89's set difference left out.
compare_baselines_NewNotSubtracted(current, baseline) ==
    LET current_files  == DOMAIN current
        baseline_files == DOMAIN baseline
    IN  [new      |-> SetToList(current_files),
         deleted  |-> SetToList(baseline_files \ current_files),
         modified |-> ModifiedLoop(current_files \cap baseline_files,
                                   current, baseline, << >>)]

\* compare_baselines, lines 79-98.
compare_baselines(current, baseline) ==
    LET current_files  == DOMAIN current
        baseline_files == DOMAIN baseline
    IN  [new      |-> SetToList(current_files \ baseline_files),
         deleted  |-> SetToList(baseline_files \ current_files),
         modified |-> ModifiedLoop(current_files \cap baseline_files,
                                   current, baseline, << >>)]

(***************************************************************************)
(* Baseline store: json.dump / json.load over a text of tokens             *)
(***************************************************************************)

Punct(c) == [t |-> "punct", v |-> c]
Str(s)   == [t |-> "str", v |-> s]
Hex(h)   == [t |-> "hex", v |-> h]
Num(d)   == [t |-> "num", v |-> d]

\* The decimal digits of a natural number, most significant first. Sizes are
\* written this way; st_mtime, a float that json writes with repr and reads
\* back exactly, is counted here in whole ticks and written the same way.
RECURSIVE ToDigits(_)
ToDigits(n) == IF n < 10 THEN <<n>> ELSE Append(ToDigits(n \div 10), n % 10)

RECURSIVE FromDigits(_)
FromDigits(d) ==
    IF Len(d) = 0 THEN 0
    ELSE 10 * FromDigits(SubSeq(d, 1, Len(d) - 1)) + d[Len(d)]

\* A member written with the two numbers in each other's place.
DumpEntry_NumbersSwapped(k, r) ==
    << Str(k), Punct(":"), Punct("{"),
       Str("hash"), Punct(":"), Hex(r.hash), Punct(","),
       Str("size"), Punct(":"), Num(ToDigits(r.modified)), Punct(","),
       Str("modified"), Punct(":"), Num(ToDigits(r.size)),
       Punct("}") >>

\* One "path": {"hash": ..., "size": ..., "modified": ...} member.
DumpEntry(k, r) ==
    << Str(k), Punct(":"), Punct("{"),
       Str("hash"), Punct(":"), Hex(r.hash), Punct(","),
       Str("size"), Punct(":"), Num(ToDigits(r.size)), Punct(","),
       Str("modified"), Punct(":"), Num(ToDigits(r.modified)),
       Punct("}") >>

EntryLen == 15

RECURSIVE DumpMembers(_, _)
DumpMembers(m, keys) ==
    IF keys = << >> THEN << >>
    ELSE DumpEntry(keys[1], m[keys[1]])
         \o (IF Len(keys) > 1 THEN <<Punct(",")>> ELSE << >>)
         \o DumpMembers(m, Tail(keys))

\* json.dump(data, f, ...): the text written for a mapping.
json_dumps(m) == <<Punct("{")>> \o DumpMembers(m, SetToList(DOMAIN m)) \o <<Punct("}")>>

IsTok(text, i, tok) ==
    /\ i <= Len(text)
    /\ text[i].t = tok.t
    /\ text[i].v = tok.v

HasType(text, i, ty) == i <= Len(text) /\ text[i].t = ty

\* Whether text[i .. i+EntryLen-1] is one member.
IsEntryAt(text, i) ==
    /\ HasType(text, i, "str")
    /\ IsTok(text, i + 1, Punct(":"))
    /\ IsTok(text, i + 2, Punct("{"))
    /\ IsTok(text, i + 3, Str("hash"))
    /\ IsTok(text, i + 4, Punct(":"))
    /\ HasType(text, i + 5, "hex")
    /\ IsTok(text, i + 6, Punct(","))
    /\ IsTok(text, i + 7, Str("size"))
    /\ IsTok(text, i + 8, Punct(":"))
    /\ HasType(text, i + 9, "num")
    /\ IsTok(text, i + 10, Punct(","))
    /\ IsTok(text, i + 11, Str("modified"))
    /\ IsTok(text, i + 12, Punct(":"))
    /\ HasType(text, i + 13, "num")
    /\ IsTok(text, i + 14, Punct("}"))

EntryAt(text, i) ==
    [hash     |-> text[i + 5].v,
     size     |-> FromDigits(text[i + 9].v),
     modified |-> FromDigits(text[i + 13].v)]

\* Parse members from position i on; None on a syntax error.
RECURSIVE ParseMembers(_, _, _)
ParseMembers(text, i, acc) ==
    IF ~IsEntryAt(text, i) THEN None
    ELSE LET m == DictSet(acc, text[i].v, EntryAt(text, i))
             j == i + EntryLen
         IN  IF IsTok(text, j, Punct("}")) /\ j = Len(text) THEN Some(m)
             ELSE IF IsTok(text, j, Punct(",")) THEN ParseMembers(text, j + 1, m)
             ELSE None

\* json.load(f): the mapping a text denotes, None when it is not JSON.
json_loads(text) ==
    IF ~IsTok(text, 1, Punct("{")) THEN None
    ELSE IF IsTok(text, 2, Punct("}")) /\ Len(text) = 2 THEN Some(EmptyMapping)
    ELSE ParseMembers(text, 2, EmptyMapping)

\* print_changes: the lines the reporter prints for a classification.
Lines(mark, files) == [i \in 1..Len(files) |-> [mark |-> mark, file |-> files[i]]]

print_changes(ch) ==
    IF ch.new = << >> /\ ch.deleted = << >> /\ ch.modified = << >>
    THEN << [mark |-> "ok", file |-> ""] >>
    ELSE Lines("+", ch.new) \o Lines("-", ch.deleted) \o Lines("!", ch.modified)

(***************************************************************************)
(* State                                                                   *)
(***************************************************************************)

VARIABLES
    rootExists,     \* whether the directory named on the command line exists
    fs,             \* the tree under it: path -> entry
    bfile,          \* the baseline file: None (absent) or its text
    pc,             \* the position of the running code
    ret,            \* where scan_directory returns to
    args,           \* argparse's namespace
    dirs,           \* rglob: directories still to be listed
    todo,           \* rglob: entries listed and not yet yielded
    file_hashes,    \* scan_directory's result dict
    file_path,      \* the loop variable of line 46
    fh,             \* calculate_file_hash's open file: content and offset
    hash_func,      \* the sha256 accumulator
    file_hash,      \* line 48
    st_size,        \* the first stat() of the dict literal, line 53
    scan_ret,       \* scan_directory's return value
    data,           \* main, line 140
    current_data,   \* main, line 150 (the differ's first argument)
    baseline_data,  \* main, line 151 (the differ's second argument)
    changes,        \* main, line 154
    report,         \* what print_changes printed
    save_ret,       \* save_baseline's return value
    exit_code,      \* the process's exit status once main has returned
    faults,         \* history: changes and I/O faults the environment has caused
    touched,        \* history: files the environment changed during the scan
    fs0,            \* history: the tree when the scan started
    bfile0,         \* history: the baseline file when main started
    saved,          \* history: the mapping the intact baseline file was saved from
    savedFresh,     \* history: the tree is as it was when `saved` was scanned
    lastResult,     \* history: the latest successful scan of the tree as it is now
    prevResult      \* history: the successful scan before it, of the same tree

fsVars    == <<rootExists, fs>>
scanVars  == <<dirs, todo, file_hashes, file_path, fh, hash_func, file_hash, st_size>>
mainVars  == <<args, data, current_data, baseline_data, changes, report, save_ret, exit_code>>
histVars  == <<faults, touched, fs0, bfile0, saved, savedFresh, lastResult, prevResult>>
vars == <<fsVars, bfile, pc, ret, scanVars, scan_ret, mainVars, histVars>>

(***************************************************************************)
(* The file system                                                         *)
(***************************************************************************)

Absent  == [kind |-> "absent",  content |-> << >>, mtime |-> 0, readable |-> TRUE]
Dir     == [kind |-> "dir",     content |-> << >>, mtime |-> 0, readable |-> TRUE]
LinkDir == [kind |-> "linkdir", content |-> << >>, mtime |-> 0, readable |-> TRUE]
Special == [kind |-> "special", content |-> << >>, mtime |-> 0, readable |-> TRUE]
\* A regular file, and a symbolic link whose target is a regular file.
File(c)   == [kind |-> "file", content |-> c, mtime |-> 1, readable |-> TRUE]
Link(c)   == [kind |-> "link", content |-> c, mtime |-> 1, readable |-> TRUE]

LeafEntries == {Absent, Special, File(<<"A">>), Link(<<"A">>)}
DirEntries  == {Absent, Dir, LinkDir}

Trees ==
    {t \in [Paths -> LeafEntries \cup DirEntries] :
        /\ t["a.txt"] \in LeafEntries
        /\ t["d"] \in DirEntries
        /\ t["d/a.txt"] \in LeafEntries
        /\ (t["d"].kind # "dir" => t["d/a.txt"] = Absent)}

EmptyTree == [p \in Paths |-> Absent]

\* Path.is_file(): follows symbolic links.
is_file(tree, p) == tree[p].kind \in {"file", "link"}

\* What stat() and open() can reach: the entry exists.
Exists(tree, p) == tree[p].kind # "absent"

\* st_size of a file.
SizeOf(e) == ChunkSize * Len(e.content)

\* os.scandir of one directory, as rglob uses it.
Listing(tree, d) == {p \in Paths : Parent(p) = d /\ Exists(tree, p)}

NoFile == ""
Closed == [content |-> << >>, pos |-> 0]

ScanLocalsInit ==
    /\ dirs = {}
    /\ todo = {}
    /\ file_hashes = EmptyMapping
    /\ file_path = NoFile
    /\ fh = Closed
    /\ hash_func = sha256_new
    /\ file_hash = None
    /\ st_size = 0

MainLocalsInit ==
    /\ data = None
    /\ current_data = None
    /\ baseline_data = None
    /\ changes = None
    /\ report = None
    /\ save_ret = None
    /\ exit_code = None

HistInit ==
    /\ faults = 0
    /\ touched = {}
    /\ fs0 = fs
    /\ bfile0 = bfile
    /\ saved = None
    /\ savedFresh = FALSE
    /\ lastResult = None
    /\ prevResult = None

NoArgs == [baseline |-> FALSE, check |-> FALSE, output |-> None, baseline_file |-> None]

(***************************************************************************)
(* The differ alone, over arbitrary pairs of mappings                      *)
(***************************************************************************)

CmpHashes == {hexdigest(<< >>), hexdigest(<<"A">>)}
CmpSizes  == {0, ChunkSize}
CmpMtimes == {1, 2}
CmpRecords == [hash : CmpHashes, size : CmpSizes, modified : CmpMtimes]
CmpMappings == UNION {[S -> CmpRecords] : S \in SUBSET Paths}

InitCompare ==
    /\ current_data \in {Some(m) : m \in CmpMappings}
    /\ baseline_data \in {Some(m) : m \in CmpMappings}
    /\ Cardinality(DOMAIN current_data.val) + Cardinality(DOMAIN baseline_data.val) <= MaxEntries
    /\ rootExists = TRUE
    /\ fs = EmptyTree
    /\ bfile = None
    /\ pc = "compare"
    /\ ret = "none"
    /\ args = NoArgs
    /\ ScanLocalsInit
    /\ scan_ret = None
    /\ data = None
    /\ changes = None
    /\ report = None
    /\ save_ret = None
    /\ exit_code = None
    /\ HistInit

CompareCall ==
    /\ pc = "compare"
    /\ changes' = Some(compare_baselines(current_data.val, baseline_data.val))
    /\ pc' = "compared"
    /\ UNCHANGED <<fsVars, bfile, ret, scanVars, scan_ret, histVars>>
    /\ UNCHANGED <<args, data, current_data, baseline_data, report, save_ret, exit_code>>

SpecCompare == InitCompare /\ [][CompareCall]_vars
(***************************************************************************)
(* scan_directory and calculate_file_hash, step by step                    *)
(***************************************************************************)

ScanPcs == {"scan_enter", "scan_loop", "is_file", "hash_open", "hash_read",
            "hash_done", "stat_size", "stat_mtime"}

ResetFileLocals ==
    /\ file_path' = NoFile
    /\ fh' = Closed
    /\ hash_func' = sha256_new
    /\ file_hash' = None
    /\ st_size' = 0

\* The history of successful scans of an unchanged tree.
RecordScan(result) ==
    /\ prevResult' = lastResult
    /\ lastResult' = result

\* scan_directory returns: its locals die.
ScanExit(result) ==
    /\ scan_ret' = result
    /\ pc' = ret
    /\ dirs' = {}
    /\ todo' = {}
    /\ file_hashes' = EmptyMapping
    /\ ResetFileLocals
    /\ RecordScan(result)
    /\ UNCHANGED <<fsVars, bfile, ret, mainVars>>
    /\ UNCHANGED <<faults, touched, fs0, bfile0, saved, savedFresh>>

\* A check that never fails: every path is taken to exist.
dir_exists_AlwaysTrue == TRUE

\* Line 39: dir_path.exists().
dir_exists == rootExists

\* Lines 36-43: the existence check of the root.
ScanEnter ==
    /\ pc = "scan_enter"
    /\ IF ~dir_exists
       THEN ScanExit(None)
       ELSE /\ dirs' = {""}
            /\ todo' = {}
            /\ file_hashes' = EmptyMapping
            /\ pc' = "scan_loop"
            /\ fs0' = fs
            /\ touched' = {}
            /\ UNCHANGED <<fsVars, bfile, ret, scan_ret, mainVars>>
            /\ UNCHANGED <<file_path, fh, hash_func, file_hash, st_size>>
            /\ UNCHANGED <<faults, bfile0, saved, savedFresh, lastResult, prevResult>>

\* Line 46, rglob('*') lists one more directory: its entries are yielded, its
\* real subdirectories are descended into.
RglobList ==
    /\ pc = "scan_loop"
    /\ \E d \in dirs :
         /\ todo' = todo \cup Listing(fs, d)
         /\ dirs' = (dirs \ {d}) \cup {p \in Listing(fs, d) : fs[p].kind = "dir"}
    /\ UNCHANGED <<fsVars, bfile, pc, ret, scan_ret, mainVars, histVars>>
    /\ UNCHANGED <<file_hashes, file_path, fh, hash_func, file_hash, st_size>>

\* Line 46, the loop takes the next entry, in whatever order the OS lists them.
RglobNext ==
    /\ pc = "scan_loop"
    /\ \E p \in todo :
         /\ file_path' = p
         /\ todo' = todo \ {p}
    /\ pc' = "is_file"
    /\ UNCHANGED <<fsVars, bfile, ret, scan_ret, mainVars, histVars>>
    /\ UNCHANGED <<dirs, file_hashes, fh, hash_func, file_hash, st_size>>

\* Line 47.
IsFileCheck ==
    /\ pc = "is_file"
    /\ IF is_file(fs, file_path)
       THEN pc' = "hash_open" /\ UNCHANGED file_path
       ELSE pc' = "scan_loop" /\ file_path' = NoFile
    /\ UNCHANGED <<fsVars, bfile, ret, scan_ret, mainVars, histVars>>
    /\ UNCHANGED <<dirs, todo, file_hashes, fh, hash_func, file_hash, st_size>>

\* Lines 26-27: open(file_path, 'rb'); an OSError is caught at line 31.
HashOpen ==
    /\ pc = "hash_open"
    /\ IF is_file(fs, file_path) /\ fs[file_path].readable
       THEN /\ fh' = [content |-> fs[file_path].content, pos |-> 0]
            /\ hash_func' = sha256_new
            /\ pc' = "hash_read"
            /\ UNCHANGED file_hash
       ELSE /\ file_hash' = None
            /\ pc' = "hash_done"
            /\ UNCHANGED <<fh, hash_func>>
    /\ UNCHANGED <<fsVars, bfile, ret, scan_ret, mainVars, histVars>>
    /\ UNCHANGED <<dirs, todo, file_hashes, file_path, st_size>>

\* Lines 28-30: one f.read(4096); b"" ends the loop and the digest is returned.
HashRead ==
    /\ pc = "hash_read"
    /\ IF fh.pos < Len(fh.content)
       THEN /\ hash_func' = sha256_update(hash_func, fh.content[fh.pos + 1])
            /\ fh' = [fh EXCEPT !.pos = @ + 1]
            /\ UNCHANGED <<pc, file_hash>>
       ELSE /\ file_hash' = Some(hexdigest(hash_func))
            /\ fh' = Closed
            /\ pc' = "hash_done"
            /\ UNCHANGED hash_func
    /\ UNCHANGED <<fsVars, bfile, ret, scan_ret, mainVars, histVars>>
    /\ UNCHANGED <<dirs, todo, file_hashes, file_path, st_size>>

\* Lines 31-33: a read of a file the environment has removed or locked may fail.
HashReadFail ==
    /\ pc = "hash_read"
    /\ file_path \in touched
    /\ file_hash' = None
    /\ fh' = Closed
    /\ pc' = "hash_done"
    /\ UNCHANGED <<fsVars, bfile, ret, scan_ret, mainVars, histVars>>
    /\ UNCHANGED <<dirs, todo, file_hashes, file_path, hash_func, st_size>>

\* Line 49: `if file_hash:` (a hex digest is never the empty string).
HashCheck ==
    /\ pc = "hash_done"
    /\ IF file_hash.some
       THEN pc' = "stat_size" /\ UNCHANGED <<file_path, file_hash, hash_func>>
       ELSE /\ pc' = "scan_loop"
            /\ file_path' = NoFile
            /\ file_hash' = None
            /\ hash_func' = sha256_new
    /\ UNCHANGED <<fsVars, bfile, ret, scan_ret, mainVars, histVars>>
    /\ UNCHANGED <<dirs, todo, file_hashes, fh, st_size>>

\* Line 53: file_path.stat().st_size; a missing file raises, line 57 catches it.
StatSize ==
    /\ pc = "stat_size"
    /\ IF Exists(fs, file_path)
       THEN /\ st_size' = SizeOf(fs[file_path])
            /\ pc' = "stat_mtime"
            /\ UNCHANGED <<fsVars, bfile, ret, scan_ret, mainVars, histVars>>
            /\ UNCHANGED <<dirs, todo, file_hashes, file_path, fh, hash_func, file_hash>>
       ELSE ScanExit(None)

\* The record stored for a file, lines 51-55.
Fingerprint(h, size, mtime) == [hash |-> h, size |-> size, modified |-> mtime]

\* The file's name alone, without the directories between it and the root.
rel_path_NameOnly(p) == IF p = "d/a.txt" THEN "a.txt" ELSE p

\* The key of line 50: the path relative to the root.
rel_path(p) == p

\* Lines 54 and 51: the second stat(), then the dict assignment.
StatMtime ==
    /\ pc = "stat_mtime"
    /\ IF Exists(fs, file_path)
       THEN /\ file_hashes' = DictSet(file_hashes, rel_path(file_path),
                                Fingerprint(file_hash.val, st_size, fs[file_path].mtime))
            /\ pc' = "scan_loop"
            /\ ResetFileLocals
            /\ UNCHANGED <<fsVars, bfile, ret, scan_ret, mainVars, histVars>>
            /\ UNCHANGED <<dirs, todo>>
       ELSE ScanExit(None)

\* Line 56: rglob is exhausted.
ScanReturn ==
    /\ pc = "scan_loop"
    /\ dirs = {}
    /\ todo = {}
    /\ ScanExit(Some(file_hashes))

ScanStep ==
    \/ ScanEnter
    \/ RglobList
    \/ RglobNext
    \/ IsFileCheck
    \/ HashOpen
    \/ HashRead
    \/ HashCheck
    \/ StatSize
    \/ StatMtime
    \/ ScanReturn

(***************************************************************************)
(* The environment                                                         *)
(***************************************************************************)

\* A change of the tree ends what the history knows about it.
TreeChanged ==
    /\ savedFresh' = FALSE
    /\ lastResult' = None
    /\ prevResult' = None

\* Another process removes a file or makes it unreadable while the scan runs.
Interfere ==
    /\ pc \in ScanPcs \ {"scan_enter"}
    /\ faults < MaxFaults
    /\ \E p \in Paths :
         /\ fs[p].kind = "file"
         /\ \/ fs' = [fs EXCEPT ![p] = Absent]
            \/ fs[p].readable /\ fs' = [fs EXCEPT ![p].readable = FALSE]
         /\ touched' = touched \cup {p}
    /\ faults' = faults + 1
    /\ TreeChanged
    /\ UNCHANGED <<rootExists, bfile, pc, ret, scanVars, scan_ret, mainVars>>
    /\ UNCHANGED <<fs0, bfile0, saved>>

InitScan ==
    /\ rootExists \in BOOLEAN
    /\ fs \in Trees
    /\ (~rootExists => fs = EmptyTree)
    /\ bfile = None
    /\ pc = "scan_enter"
    /\ ret = "scan_returned"
    /\ args = NoArgs
    /\ ScanLocalsInit
    /\ scan_ret = None
    /\ MainLocalsInit
    /\ HistInit

SpecScan == InitScan /\ [][ScanStep \/ HashReadFail \/ Interfere]_vars
(***************************************************************************)
(* main, save_baseline and load_baseline                                   *)
(***************************************************************************)

BaselineName == Some("baseline.json")

\* The command lines: -b with and without --output, -c with and without
\* --with, neither flag, and both flags.
ArgSets ==
    { [baseline |-> TRUE,  check |-> FALSE, output |-> BaselineName, baseline_file |-> None],
      [baseline |-> TRUE,  check |-> FALSE, output |-> None,         baseline_file |-> None],
      [baseline |-> FALSE, check |-> TRUE,  output |-> None,         baseline_file |-> BaselineName],
      [baseline |-> FALSE, check |-> TRUE,  output |-> None,         baseline_file |-> None],
      [baseline |-> TRUE,  check |-> TRUE,  output |-> BaselineName, baseline_file |-> BaselineName],
      NoArgs }

Idle == pc \in {"idle", "exited"}

\* Lines 123-132: a new process parses its command line.
MainStart ==
    /\ Idle
    /\ \E a \in ArgSets : args' = a
    /\ pc' = "main"
    /\ data' = None
    /\ current_data' = None
    /\ baseline_data' = None
    /\ changes' = None
    /\ report' = None
    /\ save_ret' = None
    /\ exit_code' = None
    /\ scan_ret' = None
    /\ bfile0' = bfile
    /\ prevResult' = None
    /\ UNCHANGED <<fsVars, bfile, ret, scanVars>>
    /\ UNCHANGED <<faults, touched, fs0, saved, savedFresh, lastResult>>

\* main returns and the interpreter exits: lines 160-162 make no sys.exit call.
MainReturn ==
    /\ pc' = "exited"
    /\ exit_code' = Some(0)

\* Lines 134-139, 144-149 and 157-158.
MainDispatch ==
    /\ pc = "main"
    /\ IF args.baseline
       THEN IF IsNone(args.output)
            THEN MainReturn /\ UNCHANGED ret
            ELSE pc' = "scan_enter" /\ ret' = "b_scanned" /\ UNCHANGED exit_code
       ELSE IF args.check
            THEN IF IsNone(args.baseline_file)
                 THEN MainReturn /\ UNCHANGED ret
                 ELSE pc' = "scan_enter" /\ ret' = "c_scanned" /\ UNCHANGED exit_code
            ELSE MainReturn /\ UNCHANGED ret
    /\ UNCHANGED <<fsVars, bfile, scanVars, scan_ret, histVars>>
    /\ UNCHANGED <<args, data, current_data, baseline_data, changes, report, save_ret>>

\* Lines 140-142.
BaselineScanned ==
    /\ pc = "b_scanned"
    /\ data' = scan_ret
    /\ IF Truthy(scan_ret)
       THEN pc' = "save_open" /\ UNCHANGED exit_code
       ELSE MainReturn
    /\ UNCHANGED <<fsVars, bfile, ret, scanVars, scan_ret, histVars>>
    /\ UNCHANGED <<args, current_data, baseline_data, changes, report, save_ret>>

\* Line 63: open(output_file, 'w') truncates the file.
SaveOpen ==
    /\ pc = "save_open"
    /\ bfile' = Some(<< >>)
    /\ saved' = None
    /\ pc' = "save_write"
    /\ UNCHANGED <<fsVars, ret, scanVars, scan_ret, mainVars>>
    /\ UNCHANGED <<faults, touched, fs0, bfile0, savedFresh, lastResult, prevResult>>

\* Lines 63 and 67-69: the open fails; nothing is written.
SaveOpenFail ==
    /\ pc = "save_open"
    /\ faults < MaxFaults
    /\ faults' = faults + 1
    /\ save_ret' = Some(FALSE)
    /\ pc' = "save_done"
    /\ UNCHANGED <<fsVars, bfile, ret, scanVars, scan_ret>>
    /\ UNCHANGED <<args, data, current_data, baseline_data, changes, report, exit_code>>
    /\ UNCHANGED <<touched, fs0, bfile0, saved, savedFresh, lastResult, prevResult>>

\* Lines 64-66: json.dump writes the whole text.
SaveWrite ==
    /\ pc = "save_write"
    /\ bfile' = Some(json_dumps(data.val))
    /\ saved' = data
    /\ savedFresh' = TRUE
    /\ save_ret' = Some(TRUE)
    /\ pc' = "save_done"
    /\ UNCHANGED <<fsVars, ret, scanVars, scan_ret>>
    /\ UNCHANGED <<args, data, current_data, baseline_data, changes, report, exit_code>>
    /\ UNCHANGED <<faults, touched, fs0, bfile0, lastResult, prevResult>>

\* Where a failing write can stop, sampled: before anything is written, after
\* the opening brace, inside each member, and before the closing brace.
WriteCuts(text) ==
    {0, 1, Len(text) - 1}
        \cup {k \in 1..(Len(text) - 1) : (k - 1) % (EntryLen + 1) = EntryLen \div 2}

\* Lines 64 and 67-69: a write fails after k tokens reached the file.
SaveWriteFail ==
    /\ pc = "save_write"
    /\ faults < MaxFaults
    /\ faults' = faults + 1
    /\ \E k \in WriteCuts(json_dumps(data.val)) :
         bfile' = Some(SubSeq(json_dumps(data.val), 1, k))
    /\ save_ret' = Some(FALSE)
    /\ pc' = "save_done"
    /\ UNCHANGED <<fsVars, ret, scanVars, scan_ret>>
    /\ UNCHANGED <<args, data, current_data, baseline_data, changes, report, exit_code>>
    /\ UNCHANGED <<touched, fs0, bfile0, saved, savedFresh, lastResult, prevResult>>

\* Line 142: save_baseline's result is dropped and main returns.
SaveDone ==
    /\ pc = "save_done"
    /\ MainReturn
    /\ UNCHANGED <<fsVars, bfile, ret, scanVars, scan_ret, histVars>>
    /\ UNCHANGED <<args, data, current_data, baseline_data, changes, report, save_ret>>

\* load_baseline, lines 71-77: None when the file is missing or not JSON.
load_baseline(f) == IF IsNone(f) THEN None ELSE json_loads(f.val)

\* Lines 150-151.
CheckScanned ==
    /\ pc = "c_scanned"
    /\ current_data' = scan_ret
    /\ baseline_data' = load_baseline(bfile)
    /\ pc' = "c_loaded"
    /\ UNCHANGED <<fsVars, bfile, ret, scanVars, scan_ret, histVars>>
    /\ UNCHANGED <<args, data, changes, report, save_ret, exit_code>>

\* Line 153: `if current_data and baseline_data:`.
ShouldCompare(cur, base) == Truthy(cur) /\ Truthy(base)

\* Lines 153-155.
CheckCompare ==
    /\ pc = "c_loaded"
    /\ IF ShouldCompare(current_data, baseline_data)
       THEN /\ changes' = Some(compare_baselines(current_data.val, baseline_data.val))
            /\ report' = Some(print_changes(changes'.val))
       ELSE UNCHANGED <<changes, report>>
    /\ MainReturn
    /\ UNCHANGED <<fsVars, bfile, ret, scanVars, scan_ret, histVars>>
    /\ UNCHANGED <<args, data, current_data, baseline_data, save_ret>>

MainStep ==
    \/ MainStart
    \/ MainDispatch
    \/ BaselineScanned
    \/ SaveOpen
    \/ SaveOpenFail
    \/ SaveWrite
    \/ SaveWriteFail
    \/ SaveDone
    \/ CheckScanned
    \/ CheckCompare

(***************************************************************************)
(* The environment between invocations                                     *)
(***************************************************************************)

\* No process is running: the finished one's variables are gone.
Forget ==
    /\ pc' = "idle"
    /\ args' = NoArgs
    /\ data' = None
    /\ current_data' = None
    /\ baseline_data' = None
    /\ changes' = None
    /\ report' = None
    /\ save_ret' = None
    /\ exit_code' = None
    /\ scan_ret' = None

EditTree(tree) ==
    /\ Idle
    /\ faults < MaxFaults
    /\ faults' = faults + 1
    /\ fs' = tree
    /\ fs0' = tree
    /\ bfile0' = bfile
    /\ TreeChanged
    /\ Forget
    /\ UNCHANGED <<rootExists, bfile, ret, scanVars, touched, saved>>

EnvRemove ==
    \E p \in Paths :
        /\ fs[p].kind \in {"file", "link", "special"}
        /\ EditTree([fs EXCEPT ![p] = Absent])

EnvCreate ==
    \E p \in Paths, c \in Contents :
        /\ rootExists
        /\ p # "d"
        /\ fs[p].kind = "absent"
        /\ (Parent(p) # "" => fs[Parent(p)].kind = "dir")
        /\ EditTree([fs EXCEPT ![p] = File(c)])

\* New content, and a later modification time.
EnvModify ==
    \E p \in Paths, c \in Contents :
        /\ fs[p].kind = "file"
        /\ c # fs[p].content
        /\ EditTree([fs EXCEPT ![p].content = c, ![p].mtime = @ + 1])

\* The same content, and a later modification time.
EnvTouch ==
    \E p \in Paths :
        /\ fs[p].kind = "file"
        /\ EditTree([fs EXCEPT ![p].mtime = @ + 1])

EnvChmod ==
    \E p \in Paths :
        /\ fs[p].kind = "file"
        /\ fs[p].readable
        /\ EditTree([fs EXCEPT ![p].readable = FALSE])

\* The baseline file is deleted or overwritten with something else.
EnvDamageBaseline ==
    /\ Idle
    /\ faults < MaxFaults
    /\ faults' = faults + 1
    /\ bfile.some
    /\ \/ bfile' = None
       \/ bfile' = Some(<<Str("not a baseline")>>)
    /\ saved' = None
    /\ bfile0' = bfile'
    /\ prevResult' = None
    /\ Forget
    /\ UNCHANGED <<fsVars, ret, scanVars>>
    /\ UNCHANGED <<touched, fs0, savedFresh, lastResult>>

EnvStep ==
    \/ EnvRemove
    \/ EnvCreate
    \/ EnvModify
    \/ EnvTouch
    \/ EnvChmod
    \/ EnvDamageBaseline

Init ==
    /\ rootExists \in BOOLEAN
    /\ fs \in Trees
    /\ (~rootExists => fs = EmptyTree)
    /\ bfile \in {None, Some(json_dumps(EmptyMapping))}
    /\ pc = "idle"
    /\ ret = "none"
    /\ args = NoArgs
    /\ ScanLocalsInit
    /\ scan_ret = None
    /\ MainLocalsInit
    /\ HistInit

Next == MainStep \/ ScanStep \/ EnvStep

Spec == Init /\ [][Next]_vars
(***************************************************************************)
(* Properties                                                              *)
(***************************************************************************)

NoDuplicates(s) == Cardinality(Range(s)) = Len(s)

SameOpt(x, y) == x.some = y.some /\ (x.some => x.val = y.val)

\* Present in both mappings with equal hash and equal size.
Unchanged(k, cur, base) ==
    /\ k \in DOMAIN cur
    /\ k \in DOMAIN base
    /\ cur[k].hash = base[k].hash
    /\ cur[k].size = base[k].size

Count(b) == IF b THEN 1 ELSE 0

\* C1: the lists new, deleted and modified returned by compare_baselines have
\* no duplicates, are pairwise disjoint, hold only keys of current or
\* baseline, and every such key is in exactly one of new, deleted, modified
\* or the unchanged set.
C1_DiffPartition ==
    pc = "compared" =>
        LET cur  == current_data.val
            base == baseline_data.val
            new  == Range(changes.val.new)
            del  == Range(changes.val.deleted)
            mod  == Range(changes.val.modified)
            keys == DOMAIN cur \cup DOMAIN base
        IN  /\ NoDuplicates(changes.val.new)
            /\ NoDuplicates(changes.val.deleted)
            /\ NoDuplicates(changes.val.modified)
            /\ new \cap del = {}
            /\ new \cap mod = {}
            /\ del \cap mod = {}
            /\ new \cup del \cup mod \subseteq keys
            /\ \A k \in keys :
                 Count(k \in new) + Count(k \in del) + Count(k \in mod)
                    + Count(Unchanged(k, cur, base)) = 1

\* A comparison with a new, a deleted and a modified path.
C1_Witness ==
    /\ pc = "compared"
    /\ changes.val.new # << >>
    /\ changes.val.deleted # << >>
    /\ changes.val.modified # << >>

\* C2: new is keys(current) \ keys(baseline), deleted is keys(baseline) \
\* keys(current), and a key of both is modified iff its hash or its size
\* differs; a different 'modified' time alone never makes a file modified.
C2_Classification ==
    pc = "compared" =>
        LET cur  == current_data.val
            base == baseline_data.val
        IN  /\ Range(changes.val.new) = DOMAIN cur \ DOMAIN base
            /\ Range(changes.val.deleted) = DOMAIN base \ DOMAIN cur
            /\ \A k \in DOMAIN cur \cap DOMAIN base :
                 /\ k \in Range(changes.val.modified)
                      <=> (cur[k].hash # base[k].hash \/ cur[k].size # base[k].size)
                 /\ (cur[k].hash = base[k].hash /\ cur[k].size = base[k].size
                       /\ cur[k].modified # base[k].modified)
                      => k \notin Range(changes.val.modified)

\* A comparison of two records that differ in their 'modified' time only,
\* beside a path whose hash changed.
C2_Witness ==
    /\ pc = "compared"
    /\ \E k \in DOMAIN current_data.val \cap DOMAIN baseline_data.val :
         /\ Unchanged(k, current_data.val, baseline_data.val)
         /\ current_data.val[k].modified # baseline_data.val[k].modified
    /\ changes.val.modified # << >>

\* C3: if exactly one file is removed or made unreadable while the scan runs,
\* scan_directory still returns a mapping, and the mapping has a fingerprint
\* for every other regular file of the tree.
C3_PartialFailureIsolation ==
    (pc = "scan_returned" /\ Cardinality(touched) = 1) =>
        /\ scan_ret.some
        /\ \A p \in Paths \ touched :
             fs0[p].kind = "file" => p \in DOMAIN scan_ret.val

MissingArgument ==
    \/ args.baseline /\ IsNone(args.output)
    \/ ~args.baseline /\ args.check /\ IsNone(args.baseline_file)

ProduceMode == args.baseline /\ ~MissingArgument
CheckMode   == ~args.baseline /\ args.check /\ ~MissingArgument

\* C4: main ends with an error exit when the root does not exist, when the
\* baseline file cannot be loaded or when a mode's required argument is
\* missing, and with a non-error exit when its scan or check completes.
C4_ExitSemantics ==
    pc = "exited" =>
        /\ MissingArgument => exit_code.val # 0
        /\ ((ProduceMode \/ CheckMode) /\ ~rootExists) => exit_code.val # 0
        /\ (CheckMode /\ IsNone(baseline_data)) => exit_code.val # 0
        /\ ((ProduceMode \/ CheckMode) /\ rootExists
              /\ (CheckMode => baseline_data.some)) => exit_code.val = 0

\* C5: after save_baseline has returned False the destination file holds the
\* complete serialization of the mapping or is as it was before the call.
C5_SaveAllOrNothing ==
    (save_ret.some /\ ~save_ret.val) =>
        \/ SameOpt(bfile, bfile0)
        \/ bfile.some /\ bfile.val = json_dumps(data.val)

\* C6: a baseline file that save_baseline wrote from a scan's mapping and
\* that nothing changed since loads as a mapping with the same keys and, per
\* key, the same hash, size and 'modified' value.
C6_RoundTrip ==
    (pc = "c_loaded" /\ saved.some) =>
        /\ baseline_data.some
        /\ DOMAIN baseline_data.val = DOMAIN saved.val
        /\ \A k \in DOMAIN saved.val :
             /\ baseline_data.val[k].hash = saved.val[k].hash
             /\ baseline_data.val[k].size = saved.val[k].size
             /\ baseline_data.val[k].modified = saved.val[k].modified

\* A saved baseline of two files, one of them not empty, has been loaded.
C6_Witness ==
    /\ pc = "c_loaded"
    /\ saved.some
    /\ Cardinality(DOMAIN saved.val) = 2
    /\ \E k \in DOMAIN saved.val : saved.val[k].size > 0

\* C7: without interference, the mapping scan_directory returns has a key
\* only for regular files (no directory, symbolic link or special entry),
\* and has one for every readable regular file under the root.
C7_OnlyRegularFiles ==
    (pc = "scan_returned" /\ scan_ret.some /\ touched = {}) =>
        /\ \A k \in DOMAIN scan_ret.val : k \in Paths /\ fs[k].kind = "file"
        /\ \A p \in Paths :
             (fs[p].kind = "file" /\ fs[p].readable) => p \in DOMAIN scan_ret.val

AfterScan == {"b_scanned", "c_scanned", "c_loaded", "save_open", "save_write",
              "save_done", "exited"}

\* C8: when the root does not exist scan_directory returns None, never a
\* mapping, and main then leaves the baseline file as it was and computes
\* and reports no classification.
C8_RootNotFound ==
    (pc \in AfterScan /\ ~rootExists) =>
        /\ IsNone(scan_ret)
        /\ IsNone(data)
        /\ IsNone(current_data)
        /\ SameOpt(bfile, bfile0)
        /\ IsNone(save_ret)
        /\ IsNone(changes)
        /\ IsNone(report)

\* Both modes have run to their end on a root that does not exist, the check
\* with a baseline file that loads.
C8_Witness ==
    /\ pc = "exited"
    /\ ~rootExists
    /\ CheckMode
    /\ baseline_data.some

\* C9: in check mode, whenever the scan succeeds and the baseline loads, main
\* compares the two mappings and reports the result, also when one of them
\* is empty; every baseline path missing from the scan is reported deleted.
C9_CheckAlwaysReports ==
    (pc = "exited" /\ CheckMode /\ current_data.some /\ baseline_data.some) =>
        /\ changes.some
        /\ report.some
        /\ \A k \in DOMAIN baseline_data.val \ DOMAIN current_data.val :
             /\ k \in Range(changes.val.deleted)
             /\ [mark |-> "-", file |-> k] \in Range(report.val)

NoChanges(ch) == ch.new = << >> /\ ch.deleted = << >> /\ ch.modified = << >>

\* C10: two successful scans of an unchanged tree return the same keys with
\* the same hash and size, and a baseline saved from the first, reloaded and
\* compared with the second gives empty new, deleted and modified lists.
C10_ScanIdempotence ==
    /\ (prevResult.some /\ lastResult.some) =>
          /\ DOMAIN prevResult.val = DOMAIN lastResult.val
          /\ \A k \in DOMAIN lastResult.val :
               /\ prevResult.val[k].hash = lastResult.val[k].hash
               /\ prevResult.val[k].size = lastResult.val[k].size
    /\ (pc = "exited" /\ CheckMode /\ saved.some /\ savedFresh) =>
          /\ changes.some
          /\ NoChanges(changes.val)
          /\ report.some

\* A check has compared a second scan of two files with the baseline saved
\* from the first scan of the same tree.
C10_Witness ==
    /\ pc = "exited"
    /\ CheckMode
    /\ saved.some
    /\ savedFresh
    /\ prevResult.some
    /\ lastResult.some
    /\ changes.some
    /\ Cardinality(DOMAIN current_data.val) = 2
====
